---------------------------- MODULE Spec2Model ----------------------------
(***************************************************************************)
(* Workforce math (Erlang C, staffing solver) and the scenario simulator   *)
(* of project-1/python, as a state machine over calls of the functions.    *)
(*                                                                         *)
(* Python floats are modelled as binary floating-point numbers <<m, e>>    *)
(* (value m * 2^e, m odd or zero) with a significand of MantBits bits,     *)
(* round-half-even after every operation, and an overflow threshold of     *)
(* 2^EMax.  binary64 has 53 and 1024; the widths are reduced so that the   *)
(* arithmetic fits 32-bit integers; the rounding and overflow behaviour   *)
(* of each operation is kept.                                              *)
(***************************************************************************)
EXTENDS Integers, Sequences, FiniteSets, TLC

(* ------------------------------ bounds -------------------------------- *)
\* significand width of the modelled float (binary64: 53)
MantBits == 8
\* a float result of magnitude >= 2^EMax overflows (binary64: 1024)
EMax == 10
\* contacts per interval range over 0..MaxContacts
MaxContacts == 6
\* explicit agent counts and solver ceilings range up to MaxAgents
MaxAgents == 8
\* forecasts hold 1..MaxForecastRows rows
MaxForecastRows == 2
\* training windows span 0..MaxTrainDays calendar days
MaxTrainDays == 8
\* projections cover HorizonDays calendar days
HorizonDays == 2

(* --------------------------- integer helpers -------------------------- *)
\* The element of a one-element set.  "Only({ f(v) : v \in {expr} })" names
\* the value of expr once and uses it several times in f.
Only(S) == CHOOSE v \in S : TRUE

Abs(n) == IF n < 0 THEN -n ELSE n

Sgn(n) == IF n < 0 THEN -1 ELSE IF n > 0 THEN 1 ELSE 0

MaxI(a, b) == IF a >= b THEN a ELSE b

MinI(a, b) == IF a <= b THEN a ELSE b

Pow2(k) == 2 ^ k

\* number of bits of a natural number (0 for 0)
RECURSIVE BitLen(_)
BitLen(n) == IF n <= 0 THEN 0 ELSE 1 + BitLen(n \div 2)

(* ------------------------- float arithmetic --------------------------- *)
Zero == <<0, 0>>

\* float("inf") and float("nan"): only stored and compared, never operands
PosInf == <<1, 100000>>

NaN == <<0, 100000>>

\* canonical form: odd significand
RECURSIVE Strip(_, _)
Strip(m, e) == IF m = 0 THEN Zero
               ELSE IF m % 2 = 0 THEN Strip(m \div 2, e + 1)
               ELSE <<m, e>>

\* a * 2^e for a > 0 of L > MantBits bits, rounded to MantBits bits
RoundBits(a, e, sticky, L) ==
    Only({ Strip(IF r > half \/ (r = half /\ (sticky \/ q % 2 = 1))
                 THEN q + 1 ELSE q, e + L - MantBits) :
           q \in {a \div Pow2(L - MantBits)},
           r \in {a % Pow2(L - MantBits)},
           half \in {Pow2(L - MantBits - 1)} })

\* n * 2^e (plus a non-zero remainder below the last bit of n when sticky)
\* rounded to MantBits significant bits, ties to even
RoundSticky(n, e, sticky) ==
    Only({ IF v[1] = 0 THEN Zero
           ELSE IF L <= MantBits THEN Strip(v[1], v[2])
           ELSE Only({ <<Sgn(v[1]) * u[1], u[2]>> :
                       u \in {RoundBits(Abs(v[1]), v[2], sticky, L)} }) :
           v \in {<<n, e>>}, L \in {BitLen(Abs(n))} })

Round(n, e) == RoundSticky(n, e, FALSE)

\* the position of the leading bit: 2^(Top-1) <= |x| < 2^Top
Top(x) == Only({ BitLen(Abs(v[1])) + v[2] : v \in {x} })

\* a finite result whose magnitude reaches 2^EMax does not fit a float
Overflows(x) == \E v \in {x} : v[1] # 0 /\ Top(v) > EMax

FlNeg(x) == Only({ <<-v[1], v[2]>> : v \in {x} })

FlMul(x, y) ==
    Only({ Round(a[1] * b[1], a[2] + b[2]) : a \in {x}, b \in {y} })

\* a + b: exact when the exponents are close, else the larger operand
AddValues(a, b) ==
    IF a[1] = 0 THEN b
    ELSE IF b[1] = 0 THEN a
    ELSE IF a[2] - b[2] > 2 * MantBits + 2 THEN a
    ELSE IF b[2] - a[2] > 2 * MantBits + 2 THEN b
    ELSE Only({ Round(a[1] * Pow2(a[2] - e) + b[1] * Pow2(b[2] - e), e) :
                e \in {MinI(a[2], b[2])} })

FlAdd(x, y) == Only({ AddValues(a, b) : a \in {x}, b \in {y} })

FlSub(x, y) == FlAdd(x, FlNeg(y))

\* a / b for b # 0, correctly rounded
DivValues(a, b) ==
    IF a[1] = 0 THEN Zero
    ELSE Only({ RoundSticky(Sgn(a[1]) * Sgn(b[1]) * (num \div Abs(b[1])),
                            a[2] - sx - MantBits - 2 - b[2],
                            num % Abs(b[1]) # 0) :
                sx  \in {MantBits - BitLen(Abs(a[1]))},
                num \in {Abs(a[1]) * Pow2(2 * MantBits + 2
                                          - BitLen(Abs(a[1])))} })

FlDiv(x, y) == Only({ DivValues(a, b) : a \in {x}, b \in {y} })

\* the sign of a - b
CmpValues(a, b) ==
    IF Sgn(a[1]) # Sgn(b[1]) THEN Sgn(Sgn(a[1]) - Sgn(b[1]))
    ELSE IF a[1] = 0 THEN 0
    ELSE Only({ IF ta # tb THEN Sgn(a[1]) * Sgn(ta - tb)
                ELSE Sgn(a[1] * Pow2(a[2] - e) - b[1] * Pow2(b[2] - e)) :
                ta \in {Top(a)}, tb \in {Top(b)}, e \in {MinI(a[2], b[2])} })

FlCmp(x, y) == Only({ CmpValues(a, b) : a \in {x}, b \in {y} })

FlLe(x, y) == FlCmp(x, y) <= 0

FlLt(x, y) == FlCmp(x, y) < 0

FlMax(x, y) == Only({ IF FlLt(a, b) THEN b ELSE a : a \in {x}, b \in {y} })

FlMin(x, y) == Only({ IF FlLt(b, a) THEN b ELSE a : a \in {x}, b \in {y} })

\* float(n) for an integer n
FromInt(n) == Round(n, 0)

\* the float nearest to the decimal literal num/den
Lit(num, den) == FlDiv(FromInt(num), FromInt(den))

\* math.floor and math.ceil of a finite float
FlFloor(x) ==
    Only({ IF v[2] >= 0 THEN v[1] * Pow2(v[2])
           ELSE IF -v[2] > 30 THEN (IF v[1] < 0 THEN -1 ELSE 0)
           ELSE v[1] \div Pow2(-v[2]) : v \in {x} })

FlCeil(x) == -FlFloor(FlNeg(x))

One == FromInt(1)

\* exp(-k/4) for k = 0, 1, ... to 16 significant bits (truncated)
ExpTable ==
    << <<32768, -15>>, <<51039, -16>>, <<39749, -16>>, <<61914, -17>>,
       <<48218, -17>>, <<37552, -17>>, <<58492, -18>>, <<45553, -18>>,
       <<35477, -18>>, <<55259, -19>>, <<43036, -19>>, <<33516, -19>>,
       <<52205, -20>>, <<40657, -20>>, <<63328, -21>>, <<49320, -21>>,
       <<38410, -21>>, <<59828, -22>>, <<46594, -22>>, <<36287, -22>>,
       <<56521, -23>>, <<44019, -23>>, <<34282, -23>>, <<53398, -24>>,
       <<41586, -24>>, <<64775, -25>>, <<50447, -25>>, <<39288, -25>>,
       <<61195, -26>>, <<47658, -26>>, <<37116, -26>>, <<57813, -27>>,
       <<45025, -27>>, <<35065, -27>>, <<54618, -28>>, <<42536, -28>>,
       <<33127, -28>>, <<51599, -29>>, <<40185, -29>>, <<62593, -30>>,
       <<48747, -30>>, <<37964, -30>>, <<59134, -31>>, <<46053, -31>>,
       <<35866, -31>>, <<55865, -32>>, <<43508, -32>>, <<33884, -32>>,
       <<52778, -33>>, <<41103, -33>>, <<64023, -34>>, <<49861, -34>>,
       <<38832, -34>>, <<60485, -35>>, <<47105, -35>>, <<36686, -35>>,
       <<57142, -36>>, <<44502, -36>>, <<34658, -36>>, <<53984, -37>>,
       <<42042, -37>>, <<65486, -38>>, <<51000, -38>>, <<39719, -38>>,
       <<61866, -39>>, <<48181, -39>>, <<37524, -39>>, <<58447, -40>>,
       <<45519, -40>>, <<35450, -40>>, <<55217, -41>>, <<43003, -41>>,
       <<33491, -41>>, <<52165, -42>>, <<40626, -42>>, <<63280, -43>>,
       <<49282, -43>>, <<38381, -43>>, <<59782, -44>>, <<46559, -44>>,
       <<36260, -44>>, <<56478, -45>>, <<43985, -45>>, <<34256, -45>>,
       <<53357, -46>>, <<41554, -46>>, <<64725, -47>>, <<50408, -47>>,
       <<39258, -47>>, <<61148, -48>>, <<47622, -48>>, <<37088, -48>>,
       <<57769, -49>>, <<44990, -49>>, <<35038, -49>>, <<54576, -50>>,
       <<42504, -50>> >>

\* math.exp(x) for x <= 0.  The exponents the model produces are multiples
\* of 1/4 (half-integer traffic, threshold/AHT in {1/2, 1, 2}); the table
\* gives exp there, rounded to the float's precision.
MathExp(x) ==
    Only({ IF k < 0 THEN One
           ELSE IF k + 1 > Len(ExpTable) THEN Zero
           ELSE Only({ RoundSticky(t[1], t[2], k > 0) :
                       t \in {ExpTable[k + 1]} }) :
           k \in {FlFloor(FlMul(FlNeg(x), FromInt(4)))} })

(* ------------------- results: a value or an exception ----------------- *)
Ret(v) == [exc |-> "none", val |-> v]

Raise(name) == [exc |-> name, val |-> Zero]

RECURSIVE IntPow(_, _)
IntPow(m, k) == IF k <= 0 THEN 1 ELSE m * IntPow(m, k - 1)

RECURSIVE MulPow(_, _)
MulPow(a, k) == IF k <= 0 THEN One ELSE FlMul(MulPow(a, k - 1), a)

\* a ** k for a float a >= 0 and an integer k >= 0: the rounded power, or
\* OverflowError when it does not fit ("Numerical result out of range")
PowValue(a, k) ==
    IF k = 0 THEN Ret(One)
    ELSE IF a[1] = 0 THEN Ret(Zero)
    ELSE IF (Top(a) - 1) * k >= EMax THEN Raise("OverflowError")
    ELSE Only({ IF Overflows(p) THEN Raise("OverflowError") ELSE Ret(p) :
                p \in {IF BitLen(Abs(a[1])) * k <= 30
                       THEN Round(IntPow(a[1], k), a[2] * k)
                       ELSE MulPow(a, k)} })

FloatPow(x, k) == Only({ PowValue(a, k) : a \in {x} })

(* ------------------------------ wfm_math ------------------------------ *)
RECURSIVE math_factorial(_)
math_factorial(n) == IF n <= 1 THEN 1 ELSE n * math_factorial(n - 1)

\* float(math.factorial(n)): OverflowError ("int too large to convert to
\* float") when n! does not fit a float
_factorial(n) ==
    Only({ IF Overflows(f) THEN Raise("OverflowError") ELSE Ret(f) :
           f \in {FromInt(math_factorial(n))} })

\* one term (a**k) / _factorial(k): the power is evaluated first
PowOverFact(a, k) ==
    Only({ IF p.exc # "none" THEN p
           ELSE Only({ IF f.exc # "none" THEN f
                       ELSE Ret(FlDiv(p.val, f.val)) :
                       f \in {_factorial(k)} }) :
           p \in {FloatPow(a, k)} })

\* the loop "for k in range(0, n): s += (a**k) / _factorial(k)" from k on
RECURSIVE SumLoop(_, _, _, _)
SumLoop(a, n, k, s) ==
    IF k >= n THEN Ret(s)
    ELSE Only({ IF t.exc # "none" THEN t
                ELSE Only({ SumLoop(a, n, k + 1, s1) :
                            s1 \in {FlAdd(s, t.val)} }) :
                t \in {PowOverFact(a, k)} })

\* numer = (a**n) / _factorial(n) * (n / (n - a)); denom = s + numer
ProbWaitValue(a, n, s, t) ==
    Only({ Only({ IF FlLe(denom, Zero) THEN Ret(One)
                  ELSE Ret(FlMax(Zero, FlMin(One, FlDiv(numer, denom)))) :
                  denom \in {FlAdd(s, numer)} }) :
           numer \in {FlMul(t, FlDiv(FromInt(n), FlSub(FromInt(n), a)))} })

ProbWaitStable(a, n) ==
    Only({ IF s.exc # "none" THEN s
           ELSE Only({ IF t.exc # "none" THEN t
                       ELSE ProbWaitValue(a, n, s.val, t.val) :
                       t \in {PowOverFact(a, n)} }) :
           s \in {SumLoop(a, n, 0, Zero)} })

erlang_c_prob_wait(traffic_erlangs, agents) ==
    Only({ IF agents <= 0 \/ FlLe(a, Zero) THEN Ret(One)
           ELSE IF FlLe(FromInt(agents), a) THEN Ret(One)
           ELSE ProbWaitStable(a, agents) :
           a \in {traffic_erlangs} })

\* ASA = (Pw * AHT) / max(1e-9, agents - traffic)
AsaStable(a, n, aht) ==
    Only({ IF pw.exc # "none" THEN pw
           ELSE Ret(FlDiv(FlMul(pw.val, aht),
                          FlMax(Lit(1, 1000000000), FlSub(FromInt(n), a)))) :
           pw \in {erlang_c_prob_wait(a, n)} })

\* variant of erlang_c_asa_seconds that tests the idle case (traffic <= 0)
\* before the agent count
AsaIdleCaseFirst(traffic_erlangs, agents, aht_seconds) ==
    Only({ IF FlLe(aht, Zero) THEN Ret(PosInf)
           ELSE IF FlLe(a, Zero) THEN Ret(Zero)
           ELSE IF agents <= 0 THEN Ret(PosInf)
           ELSE IF FlLe(FromInt(agents), a) THEN Ret(PosInf)
           ELSE AsaStable(a, agents, aht) :
           a \in {traffic_erlangs}, aht \in {aht_seconds} })

erlang_c_asa_seconds(traffic_erlangs, agents, aht_seconds) ==
    Only({ IF FlLe(aht, Zero) THEN Ret(PosInf)
           ELSE IF agents <= 0 THEN Ret(PosInf)
           ELSE IF FlLe(a, Zero) THEN Ret(Zero)
           ELSE IF FlLe(FromInt(agents), a) THEN Ret(PosInf)
           ELSE AsaStable(a, agents, aht) :
           a \in {traffic_erlangs}, aht \in {aht_seconds} })

\* SLA = 1 - Pw * exp(-(agents - traffic) * (threshold / AHT)), clamped
ServiceLevelStable(a, n, aht, thr) ==
    Only({ IF pw.exc # "none" THEN pw
           ELSE Only({ Ret(FlMax(Zero, FlMin(One,
                           FlSub(One, FlMul(pw.val, MathExp(exponent)))))) :
                       exponent \in {FlMul(FlNeg(FlSub(FromInt(n), a)),
                                           FlDiv(thr, aht))} }) :
           pw \in {erlang_c_prob_wait(a, n)} })

\* variant of erlang_c_service_level without the idle case (traffic <= 0)
ServiceLevelWithoutIdleCase(traffic_erlangs, agents, aht_seconds, threshold_seconds) ==
    Only({ IF FlLe(thr, Zero) THEN Ret(Zero)
           ELSE IF FlLe(aht, Zero) THEN Ret(Zero)
           ELSE IF agents <= 0 THEN Ret(Zero)
           ELSE IF FlLe(FromInt(agents), a) THEN Ret(Zero)
           ELSE ServiceLevelStable(a, agents, aht, thr) :
           a \in {traffic_erlangs}, aht \in {aht_seconds},
           thr \in {threshold_seconds} })

erlang_c_service_level(traffic_erlangs, agents, aht_seconds, threshold_seconds) ==
    Only({ IF FlLe(thr, Zero) THEN Ret(Zero)
           ELSE IF FlLe(aht, Zero) THEN Ret(Zero)
           ELSE IF agents <= 0 THEN Ret(Zero)
           ELSE IF FlLe(a, Zero) THEN Ret(One)
           ELSE IF FlLe(FromInt(agents), a) THEN Ret(Zero)
           ELSE ServiceLevelStable(a, agents, aht, thr) :
           a \in {traffic_erlangs}, aht \in {aht_seconds},
           thr \in {threshold_seconds} })

\* traffic = (contacts * aht_seconds) / max(1, interval_seconds)
Traffic(contacts, interval_seconds, aht_seconds) ==
    FlDiv(FlMul(contacts, aht_seconds), FromInt(MaxI(1, interval_seconds)))

MetricsOf(traffic, agents, pw, asa, sl) ==
    IF pw.exc # "none" THEN pw
    ELSE IF asa.exc # "none" THEN asa
    ELSE IF sl.exc # "none" THEN sl
    ELSE Ret([traffic_erlangs |-> traffic, agents |-> agents,
              prob_wait |-> pw.val, asa_seconds |-> asa.val,
              service_level |-> sl.val])

erlang_metrics(contacts, interval_seconds, aht_seconds, agents, sla_threshold_seconds) ==
    Only({ Only({ MetricsOf(traffic, agents, pw, asa, sl) :
                  pw  \in {erlang_c_prob_wait(traffic, agents)},
                  asa \in {erlang_c_asa_seconds(traffic, agents,
                                                aht_seconds)},
                  sl  \in {erlang_c_service_level(traffic, agents,
                               aht_seconds, sla_threshold_seconds)} }) :
           traffic \in {Traffic(contacts, interval_seconds, aht_seconds)} })

\* variant of SearchStart that begins strictly above the traffic
SearchStartAboveTraffic(traffic) == MaxI(1, FlFloor(traffic) + 1)

\* start = max(1, int(math.ceil(traffic)))
SearchStart(traffic) == MaxI(1, FlCeil(traffic))

\* variant of SearchBody with the comparison against the target reversed
SearchBodyReversed(traffic, aht_seconds, sla_threshold_seconds, sla_target, n) ==
    Only({ IF sl.exc # "none" THEN "raise"
           ELSE IF FlLe(sl.val, sla_target) THEN "return"
           ELSE "continue" :
           sl \in {erlang_c_service_level(traffic, n, aht_seconds,
                                          sla_threshold_seconds)} })

\* one pass of the loop body for candidate n: "raise" when the service
\* level raises, "return" when it meets the target, else "continue"
SearchBody(traffic, aht_seconds, sla_threshold_seconds, sla_target, n) ==
    Only({ IF sl.exc # "none" THEN "raise"
           ELSE IF FlLe(sla_target, sl.val) THEN "return"
           ELSE "continue" :
           sl \in {erlang_c_service_level(traffic, n, aht_seconds,
                                          sla_threshold_seconds)} })

\* the first candidate of lo..hi at which the loop leaves (hi + 1 when it
\* runs through), by bisection so that the evaluation stays shallow
RECURSIVE FirstExit(_, _, _, _, _, _)
FirstExit(traffic, aht_seconds, sla_threshold_seconds, sla_target, lo, hi) ==
    IF lo > hi THEN hi + 1
    ELSE IF lo = hi
    THEN IF SearchBody(traffic, aht_seconds, sla_threshold_seconds,
                       sla_target, lo) # "continue"
         THEN lo ELSE hi + 1
    ELSE IF \E n \in lo..((lo + hi) \div 2) :
                SearchBody(traffic, aht_seconds, sla_threshold_seconds,
                           sla_target, n) # "continue"
    THEN FirstExit(traffic, aht_seconds, sla_threshold_seconds,
                   sla_target, lo, (lo + hi) \div 2)
    ELSE FirstExit(traffic, aht_seconds, sla_threshold_seconds,
                   sla_target, (lo + hi) \div 2 + 1, hi)

\* the loop "for n in range(start, max_agents + 1)": the candidates are
\* tried in increasing order until one raises or meets the target; evals
\* counts the candidates whose service level was evaluated
SearchLoop(traffic, aht_seconds, sla_threshold_seconds, sla_target, max_agents, start) ==
    Only({ IF n > max_agents
           THEN [exc |-> "none", val |-> max_agents,
                 evals |-> MaxI(0, max_agents - start + 1)]
           ELSE IF SearchBody(traffic, aht_seconds, sla_threshold_seconds,
                              sla_target, n) = "raise"
           THEN [exc |-> "OverflowError", val |-> 0, evals |-> n - start + 1]
           ELSE [exc |-> "none", val |-> n, evals |-> n - start + 1] :
           n \in {FirstExit(traffic, aht_seconds, sla_threshold_seconds,
                            sla_target, start, max_agents)} })

required_agents_for_sla(contacts, interval_seconds, aht_seconds, sla_threshold_seconds, sla_target, max_agents) ==
    Only({ SearchLoop(traffic, aht, thr, tgt, max_agents,
                      SearchStart(traffic)) :
           traffic \in {Traffic(contacts, interval_seconds, aht_seconds)},
           aht \in {aht_seconds}, thr \in {sla_threshold_seconds},
           tgt \in {sla_target} })

\* the default of required_agents_for_sla's max_agents
DefaultMaxAgents == 500

\* variant of ClampShrinkage without the lower clamp
ClampShrinkageUpperOnly(shrinkage_rate) == FlMin(Lit(95, 100), shrinkage_rate)

\* r = max(0.0, min(0.95, shrinkage_rate))
ClampShrinkage(shrinkage_rate) ==
    FlMax(Zero, FlMin(Lit(95, 100), shrinkage_rate))

apply_shrinkage(scheduled_agents, shrinkage_rate) ==
    FlMax(Zero, FlMul(scheduled_agents,
                      FlSub(One, ClampShrinkage(shrinkage_rate))))

\* int(math.ceil(required_available / max(1e-9, (1.0 - r))))
ScheduledFromAvailable(required_available, shrinkage_rate) ==
    FlCeil(FlDiv(FromInt(required_available),
                 FlMax(Lit(1, 1000000000),
                       FlSub(One, ClampShrinkage(shrinkage_rate)))))

erlang_c_summary(contacts, interval_seconds, aht_seconds, agents, sla_threshold_seconds) ==
    erlang_metrics(contacts, interval_seconds, aht_seconds, agents,
                   sla_threshold_seconds)

\* what required_agents_realtime makes of the solver's result req
RealtimeResult(req, shrinkage_rate) ==
    IF req.exc # "none" THEN Raise(req.exc)
    ELSE Ret([available_agents |-> req.val,
              scheduled_agents |->
                  ScheduledFromAvailable(req.val, shrinkage_rate)])

required_agents_realtime(contacts, interval_seconds, aht_seconds, sla_threshold_seconds, sla_target, shrinkage_rate) ==
    Only({ RealtimeResult(req, shrinkage_rate) :
           req \in {required_agents_for_sla(contacts, interval_seconds,
                        aht_seconds, sla_threshold_seconds, sla_target,
                        DefaultMaxAgents)} })

\* variant of ThroughputAvailable that truncates instead of rounding up
ThroughputAvailableTruncated(contacts, interval_seconds, aht_seconds, productivity) ==
    FlFloor(FlDiv(Traffic(contacts, interval_seconds, aht_seconds),
                  FlMax(Lit(1, 10), productivity)))

\* int(math.ceil((contacts * aht_seconds) / max(1, interval_seconds) / prod))
\* with prod = max(0.1, productivity)
ThroughputAvailable(contacts, interval_seconds, aht_seconds, productivity) ==
    FlCeil(FlDiv(Traffic(contacts, interval_seconds, aht_seconds),
                 FlMax(Lit(1, 10), productivity)))

required_agents_throughput(contacts, interval_seconds, aht_seconds, shrinkage_rate, productivity) ==
    Only({ Ret([available_agents |-> required_available,
                scheduled_agents |->
                    ScheduledFromAvailable(required_available,
                                           shrinkage_rate)]) :
           required_available \in
               {ThroughputAvailable(contacts, interval_seconds, aht_seconds,
                                    productivity)} })

(* ----------------------- forecast_and_simulate ------------------------ *)
\* A call f(name=value, ...) binds when every name is a parameter of f and
\* every parameter without a default is named; otherwise it raises
\* TypeError before f runs.
Binds(params, required, kwargs) ==
    DOMAIN kwargs \subseteq params /\ required \subseteq DOMAIN kwargs

RealtimeRequired ==
    {"contacts", "interval_seconds", "aht_seconds",
     "sla_threshold_seconds", "sla_target"}

RealtimeParams == RealtimeRequired \cup {"shrinkage_rate"}

ThroughputRequired == {"contacts", "interval_seconds", "aht_seconds"}

ThroughputParams == ThroughputRequired \cup {"shrinkage_rate", "productivity"}

SummaryParams ==
    {"contacts", "interval_seconds", "aht_seconds", "agents",
     "sla_threshold_seconds"}

\* kw[name], or the parameter's default when the call does not name it
Arg(kw, name, default) == IF name \in DOMAIN kw THEN kw[name] ELSE default

\* required_agents_realtime(**kw)
KwRequiredAgentsRealtime(kw) ==
    IF ~Binds(RealtimeParams, RealtimeRequired, kw) THEN Raise("TypeError")
    ELSE required_agents_realtime(kw.contacts, kw.interval_seconds,
             kw.aht_seconds, kw.sla_threshold_seconds, kw.sla_target,
             Arg(kw, "shrinkage_rate", Zero))

\* required_agents_throughput(**kw)
KwRequiredAgentsThroughput(kw) ==
    IF ~Binds(ThroughputParams, ThroughputRequired, kw)
    THEN Raise("TypeError")
    ELSE required_agents_throughput(kw.contacts, kw.interval_seconds,
             kw.aht_seconds, Arg(kw, "shrinkage_rate", Zero),
             Arg(kw, "productivity", One))

\* erlang_c_summary(**kw)
KwErlangSummary(kw) ==
    IF ~Binds(SummaryParams, SummaryParams, kw) THEN Raise("TypeError")
    ELSE erlang_c_summary(kw.contacts, kw.interval_seconds, kw.aht_seconds,
                          kw.agents, kw.sla_threshold_seconds)

Scenario(id, demand, delta, wage, buffer) ==
    [scenario_id |-> id, demand_multiplier |-> Lit(demand, 100),
     shrinkage_delta |-> Lit(delta, 100), wage_multiplier |-> Lit(wage, 100),
     staffing_buffer |-> Lit(buffer, 100)]

DEFAULT_SCENARIOS ==
    << Scenario("base", 100, 0, 100, 8),
       Scenario("hi_demand", 110, 0, 100, 8),
       Scenario("lo_demand", 90, 0, 100, 8),
       Scenario("hi_shrink", 100, 5, 100, 8),
       Scenario("lo_shrink", 100, -5, 100, 8),
       Scenario("wage_up", 100, 0, 110, 8),
       Scenario("aggressive", 100, 0, 100, 20) >>

\* the columns a left merge leaves empty where no reference row matches
NoReference ==
    [cost_per_hour |-> NaN, shrinkage_rate |-> NaN,
     sla_threshold_seconds |-> NaN, aht_seconds |-> NaN, is_realtime |-> NaN]

\* drop_duplicates(subset=[channel, queue]) followed by the left merge: the
\* first reference row of the forecast row's (channel, queue), if any
ReferenceOf(staffing_ref, row) ==
    IF \E i \in 1..Len(staffing_ref) :
           /\ staffing_ref[i].channel = row.channel
           /\ staffing_ref[i].queue = row.queue
    THEN staffing_ref[CHOOSE i \in 1..Len(staffing_ref) :
             /\ staffing_ref[i].channel = row.channel
             /\ staffing_ref[i].queue = row.queue
             /\ \A j \in 1..(i - 1) :
                    \/ staffing_ref[j].channel # row.channel
                    \/ staffing_ref[j].queue # row.queue]
    ELSE NoReference

\* Series.fillna(d) on one cell
FillNa(x, d) == IF x = NaN THEN d ELSE x

\* max(lo, x) of Python floats: nan > lo is false, so lo is kept
PyMax(lo, x) == IF x = NaN THEN lo ELSE FlMax(lo, x)

\* variant of Clip without the upper limit
ClipLowerOnly(x, lo, hi) == FlMax(x, lo)

\* np.clip(x, lo, hi)
Clip(x, lo, hi) == FlMin(FlMax(x, lo), hi)

\* one row of df after the merge and the scenario columns (lines 178-188)
ScenarioRow(row, staffing_ref, scenario) ==
    Only({ [interval_start |-> row.interval_start,
            channel |-> row.channel, queue |-> row.queue,
            scenario_id |-> scenario.scenario_id,
            forecast_offered |->
                FlMul(row.forecast_offered, scenario.demand_multiplier),
            scenario_shrinkage |->
                Clip(FlAdd(FillNa(ref.shrinkage_rate, Lit(30, 100)),
                           scenario.shrinkage_delta),
                     Zero, Lit(70, 100)),
            scenario_cost_per_hour |->
                FlMul(FillNa(ref.cost_per_hour, FromInt(22)),
                      scenario.wage_multiplier),
            aht_seconds |-> ref.aht_seconds,
            sla_threshold_seconds |-> ref.sla_threshold_seconds,
            is_realtime |-> ref.is_realtime] :
           ref \in {ReferenceOf(staffing_ref, row)} })

\* the required pass on one row of df (lines 199-238): the staffing result
\* of the row's discipline, or the exception its calls raise
RequiredRow(r, interval_seconds, scenario) ==
    Only({ IF r.is_realtime # Zero
           THEN Only({ IF req.exc # "none" THEN req
                       ELSE Only({ IF er.exc # "none" THEN er ELSE req :
                                   er \in {KwErlangSummary(
                                       [contacts |-> offered,
                                        aht_seconds |-> aht,
                                        interval_seconds |-> interval_seconds,
                                        agents_available |->
                                            req.val.available_agents,
                                        sla_threshold_seconds |-> thr])} }) :
                       req \in {KwRequiredAgentsRealtime(
                           [contacts |-> offered, aht_seconds |-> aht,
                            interval_seconds |-> interval_seconds,
                            sla_threshold_seconds |-> thr,
                            sla_target |-> Lit(80, 100),
                            shrinkage |-> shrinkage,
                            occupancy_cap |-> Lit(85, 100)])} })
           ELSE KwRequiredAgentsThroughput(
                    [contacts |-> offered, aht_seconds |-> aht,
                     interval_seconds |-> interval_seconds,
                     shrinkage |-> shrinkage,
                     buffer |-> scenario.staffing_buffer]) :
           offered \in {PyMax(Zero, r.forecast_offered)},
           aht \in {PyMax(One, r.aht_seconds)},
           thr \in {PyMax(One, r.sla_threshold_seconds)},
           shrinkage \in {PyMax(Zero, r.scenario_shrinkage)} })

\* the achieved service level and ASA of one row for avail planned
\* available agents (lines 255-274)
AchievedRow(r, avail, interval_seconds) ==
    Only({ IF r.is_realtime # Zero
           THEN Only({ IF er.exc # "none" THEN er
                       ELSE Ret([service_level |-> er.val.service_level,
                                 asa_seconds |-> er.val.asa_seconds]) :
                       er \in {KwErlangSummary(
                           [contacts |-> offered, aht_seconds |-> aht,
                            interval_seconds |-> interval_seconds,
                            agents_available |-> avail,
                            sla_threshold_seconds |-> thr])} })
           ELSE Ret([service_level |->
                         IF FlLe(offered, Zero) THEN One
                         ELSE FlMin(One,
                                    FlDiv(FlDiv(FlMul(FromInt(avail),
                                              FromInt(interval_seconds)),
                                                aht),
                                          offered)),
                     asa_seconds |-> NaN]) :
           offered \in {PyMax(Zero, r.forecast_offered)},
           aht \in {PyMax(One, r.aht_seconds)},
           thr \in {PyMax(One, r.sla_threshold_seconds)} })

\* planned = ceil(required * (1 + staffing_buffer))
PlannedScheduled(required_scheduled, scenario) ==
    FlCeil(FlMul(FromInt(required_scheduled),
                 FlAdd(One, scenario.staffing_buffer)))

\* floor(planned * (1 - scenario_shrinkage))
PlannedAvailable(planned, scenario_shrinkage) ==
    FlFloor(FlMul(FromInt(planned), FlSub(One, scenario_shrinkage)))

\* one outcome row: the row of df with the columns of lines 240-279
OutcomeRow(r, required_scheduled, interval_minutes, scenario) ==
    Only({ Only({ IF ach.exc # "none" THEN ach
                  ELSE Ret([interval_start |-> r.interval_start,
                            channel |-> r.channel, queue |-> r.queue,
                            scenario_id |-> r.scenario_id,
                            forecast_offered |-> r.forecast_offered,
                            scenario_shrinkage |-> r.scenario_shrinkage,
                            required_agents_scheduled |-> required_scheduled,
                            planned_agents_scheduled |-> planned,
                            planned_agents_available |-> avail,
                            planned_labor_cost |->
                                FlMul(FlMul(FromInt(planned),
                                            r.scenario_cost_per_hour),
                                      FlDiv(FromInt(interval_minutes),
                                            FromInt(60))),
                            achieved_service_level |-> ach.val.service_level,
                            achieved_asa_seconds |-> ach.val.asa_seconds,
                            under_over_staffed |->
                                planned - required_scheduled]) :
                  ach \in {AchievedRow(r, avail, interval_minutes * 60)} }) :
           planned \in {PlannedScheduled(required_scheduled, scenario)},
           avail \in {PlannedAvailable(
                         PlannedScheduled(required_scheduled, scenario),
                         r.scenario_shrinkage)} })

\* the results of a pass over the rows: the exception of the first row that
\* raises, else the sequence of the rows' values
PassResult(results) ==
    IF \E k \in 1..Len(results) : results[k].exc # "none"
    THEN Raise(results[CHOOSE k \in 1..Len(results) :
                   /\ results[k].exc # "none"
                   /\ \A j \in 1..(k - 1) : results[j].exc = "none"].exc)
    ELSE Ret([k \in 1..Len(results) |-> results[k].val])

_simulate_scenario(forecast_df, staffing_ref, interval_minutes, scenario) ==
    Only({ Only({ IF req.exc # "none" THEN req
                  ELSE PassResult(
                      [k \in 1..Len(df) |->
                          OutcomeRow(df[k], req.val[k].scheduled_agents,
                                     interval_minutes, scenario)]) :
                  req \in {PassResult(
                      [k \in 1..Len(df) |->
                          RequiredRow(df[k], interval_minutes * 60,
                                      scenario)])} }) :
           df \in {[k \in 1..Len(forecast_df) |->
                       ScenarioRow(forecast_df[k], staffing_ref,
                                   scenario)]} })

\* df is the caller's forecast_df itself: the scenario columns are written
\* into the shared frame
DfIsTheSharedFrame == TRUE

\* Whether the frame that _simulate_scenario assigns its columns into is the
\* caller's forecast_df: df is bound to forecast_df.copy() (line 165) and
\* then to the result of merge (line 178), both new frames.
DfIsForecastDf == FALSE

\* the rows of df when the required pass ends: the scenario columns are set
ScenarioFrame(forecast_df, staffing_ref, scenario) ==
    [k \in 1..Len(forecast_df) |->
        ScenarioRow(forecast_df[k], staffing_ref, scenario)]

\* The frames after _simulate_scenario has returned or raised result: the
\* caller's forecast_df and staffing_ref, and the local df as far as it was
\* built.  staffing_ref is only read (line 177 selects into a new frame).
FramesAfter(forecast_df, staffing_ref, scenario, result) ==
    Only({ [forecast_df |-> IF DfIsForecastDf THEN df ELSE forecast_df,
            staffing_ref |-> staffing_ref,
            df |-> df, train |-> <<>>] :
           df \in {IF result.exc = "none" THEN result.val
                   ELSE ScenarioFrame(forecast_df, staffing_ref,
                                      scenario)} })

\* no frame is held before a call; train is the training window that main
\* holds while it fits and projects one series
NoFrames == [forecast_df |-> <<>>, staffing_ref |-> <<>>, df |-> <<>>, train |-> <<>>]

(* ------------------- forecast: profile and trend fit ------------------ *)
\* A row of series_df is [day, minute, offered_contacts]: interval_start is
\* minute minutes after midnight of calendar day number day; day 0 is a
\* Monday.

\* the sequence s with every element evaluated once
Rows(s) == SubSeq(s, 1, Len(s))

\* _time_bucket: the bucket of an interval within its day
_time_bucket(minute, interval_minutes) == minute \div interval_minutes

\* interval_start.dt.dayofweek (Monday = 0)
DayOfWeek(day) == day % 7

\* the (dow, bucket) group of row i of df
GroupKey(df, interval_minutes, i) == <<DayOfWeek(df[i].day), _time_bucket(df[i].minute, interval_minutes)>>

\* the k-th smallest offered_contacts (k from 1) among the rows idx of df
KthSmallest(df, idx, k) ==
    CHOOSE v \in {df[i].offered_contacts : i \in idx} :
        /\ Cardinality({i \in idx : df[i].offered_contacts < v}) < k
        /\ k <= Cardinality({i \in idx : df[i].offered_contacts <= v})

\* median of offered_contacts over the rows idx: the middle value, or the
\* mean of the two middle values
Median(df, idx) ==
    Only({ FlDiv(FlAdd(FromInt(KthSmallest(df, idx, (n + 1) \div 2)),
                       FromInt(KthSmallest(df, idx, (n + 2) \div 2))),
                 FromInt(2)) :
           n \in {Cardinality(idx)} })

\* groupby(["dow", "bucket"])["offered_contacts"].median(): one profile
\* value per (dow, bucket) that occurs in df
Profile(df, interval_minutes) ==
    Only({ [key \in {keys[i] : i \in 1..Len(df)} |->
               Median(df, {i \in 1..Len(df) : keys[i] = key})] :
           keys \in {Rows([i \in 1..Len(df) |->
                              GroupKey(df, interval_minutes, i)])} })

\* sum of the integers f[i], i in idx
RECURSIVE IntSum(_, _)
IntSum(f, idx) ==
    IF idx = {} THEN 0
    ELSE Only({ f[i] + IntSum(f, idx \ {i}) : i \in {CHOOSE j \in idx : TRUE} })

\* resample("D", on="interval_start")["offered_contacts"].sum(): one total
\* per calendar day from the first to the last day of df, 0 for a day
\* without rows; empty for an empty df
Daily(df) ==
    IF Len(df) = 0 THEN << >>
    ELSE LET days  == {df[i].day : i \in 1..Len(df)}
             first == CHOOSE d \in days : \A o \in days : d <= o
             last  == CHOOSE d \in days : \A o \in days : o <= d
         IN  Rows([t \in 1..(last - first + 1) |->
                      IntSum([i \in 1..Len(df) |-> df[i].offered_contacts],
                             {i \in 1..Len(df) : df[i].day = first + t - 1})])

\* a[lo] + ... + a[hi], added from the left to acc
RECURSIVE AddFrom(_, _, _, _)
AddFrom(acc, a, lo, hi) ==
    IF lo > hi THEN acc ELSE AddFrom(FlAdd(acc, a[lo]), a, lo + 1, hi)

\* accumulator j of numpy's unrolled sum after blocks blocks of 8 elements
RECURSIVE BlockAcc(_, _, _)
BlockAcc(a, j, blocks) ==
    IF blocks = 1 THEN a[j]
    ELSE FlAdd(BlockAcc(a, j, blocks - 1), a[8 * (blocks - 1) + j])

\* ndarray.sum() of up to 128 floats: left to right below 8 elements,
\* otherwise 8 accumulators combined pairwise and then the remainder
NumpySum(a) ==
    IF Len(a) < 8 THEN AddFrom(Zero, a, 1, Len(a))
    ELSE Only({ AddFrom(
                    FlAdd(FlAdd(FlAdd(r[1], r[2]), FlAdd(r[3], r[4])),
                          FlAdd(FlAdd(r[5], r[6]), FlAdd(r[7], r[8]))),
                    a, 8 * (Len(a) \div 8) + 1, Len(a)) :
                r \in {[j \in 1..8 |-> BlockAcc(a, j, Len(a) \div 8)]} })

\* ndarray.mean() / Series.mean() of a non-empty sequence of floats
NumpyMean(a) == FlDiv(NumpySum(a), FromInt(Len(a)))

\* Series.tail(k)
LastRows(a, k) == [t \in 1..MinI(k, Len(a)) |-> a[Len(a) - MinI(k, Len(a)) + t]]

\* a trend is fitted to more than seven daily totals only
EnoughDaysAboveSeven(n) == n > 7

\* len(daily) >= 7: a trend is fitted to the daily totals
EnoughDays(n) == n >= 7

\* the least-squares branch: slope and intercept of y against x
LeastSquares(x, y) ==
    Only({ Only({ Only({ Only({
        [slope |-> slope, intercept |-> FlSub(y_mean, FlMul(slope, x_mean))] :
        slope \in {IF denom = Zero THEN Zero
                   ELSE FlDiv(NumpySum([t \in 1..Len(x) |->
                                  FlMul(dx[t], FlSub(y[t], y_mean))]),
                              denom)} }) :
        denom \in {NumpySum([t \in 1..Len(x) |-> FlMul(dx[t], dx[t])])} }) :
        dx \in {Rows([t \in 1..Len(x) |-> FlSub(x[t], x_mean)])} }) :
        x_mean \in {NumpyMean(x)}, y_mean \in {NumpyMean(y)} })

\* slope and intercept of the trend of the daily totals
Trend(daily) ==
    IF EnoughDays(Len(daily))
    THEN LeastSquares(Rows([t \in 1..Len(daily) |-> FromInt(t - 1)]),
                      Rows([t \in 1..Len(daily) |-> FromInt(daily[t])]))
    ELSE [slope |-> Zero,
          intercept |-> IF Len(daily) > 0
                        THEN NumpyMean([t \in 1..Len(daily) |->
                                            FromInt(daily[t])])
                        ELSE Zero]

\* max(1e-6, mean of the last 28 daily totals), 1.0 without daily totals
BaseLevel(daily) ==
    IF Len(daily) > 0
    THEN PyMax(Lit(1, 1000000),
               NumpyMean(LastRows([t \in 1..Len(daily) |-> FromInt(daily[t])],
                              28)))
    ELSE One

_fit_profile_and_trend(series_df, interval_minutes) ==
    Only({ Only({ Ret([profile |-> Profile(series_df, interval_minutes),
                       trend_slope |-> trend.slope,
                       trend_intercept |-> trend.intercept,
                       base_level |-> BaseLevel(daily)]) :
                  trend \in {Trend(daily)} }) :
           daily \in {Daily(series_df)} })

(* ------------------------ forecast: projection ------------------------ *)
\* A row of future_index is [day, minute], as the rows of series_df.

\* future_df["day"].rank(method="dense") - 1 of row k: the number of
\* distinct days of future_index before the day of row k
DayOrd(future_index, k) ==
    Cardinality({d \in {future_index[i].day : i \in 1..Len(future_index)} :
                     d < future_index[k].day})

\* np.maximum(lo, x)
NpMaximum(lo, x) == IF x = NaN THEN NaN ELSE FlMax(lo, x)

\* daily_total of a row with day index day_ord
DailyTotal(model, day_ord) ==
    NpMaximum(Zero, FlAdd(model.trend_intercept,
                          FlMul(model.trend_slope, FromInt(day_ord))))

\* the profile values of day-of-week dow, added in bucket order to acc
RECURSIVE ProfileSum(_, _, _, _)
ProfileSum(profile, dow, buckets, acc) ==
    IF buckets = {} THEN acc
    ELSE Only({ ProfileSum(profile, dow, buckets \ {b},
                           FlAdd(acc, profile[<<dow, b>>])) :
                b \in {CHOOSE b \in buckets : \A o \in buckets : b <= o} })

\* prof_totals: groupby("dow")["profile"].sum().to_dict()
ProfTotals(profile) ==
    [dow \in {key[1] : key \in DOMAIN profile} |->
        ProfileSum(profile, dow,
                   {key[2] : key \in {k \in DOMAIN profile : k[1] = dow}},
                   Zero)]

\* expected_total: max(1e-6, float(prof_totals.get(int(d), 1.0)))
ExpectedTotal(profile, dow) ==
    PyMax(Lit(1, 1000000),
          IF dow \in DOMAIN ProfTotals(profile) THEN ProfTotals(profile)[dow]
          ELSE One)

\* base: float(prof_map.get(k, 0.0))
Base(profile, key) == IF key \in DOMAIN profile THEN profile[key] ELSE Zero

\* forecast of the row at timestamp ts whose day index is day_ord
ForecastValue(model, ts, interval_minutes, day_ord) ==
    FlMul(Base(model.profile, <<DayOfWeek(ts.day), _time_bucket(ts.minute, interval_minutes)>>),
          FlDiv(DailyTotal(model, day_ord),
                ExpectedTotal(model.profile, DayOfWeek(ts.day))))

_forecast_series(model, future_index, interval_minutes) ==
    Ret(Rows([k \in 1..Len(future_index) |->
                 ForecastValue(model, future_index[k], interval_minutes,
                               DayOrd(future_index, k))]))

(* --------------------------- input domains ---------------------------- *)
ContactValues == {FromInt(c) : c \in 0..MaxContacts}

IntervalValues == {0, 1, 2}

AhtValues == {FromInt(s) : s \in {0, 1, 2}}

ThresholdValues == {FromInt(s) : s \in {0, 1, 2}}

TargetValues == {Lit(p, 100) : p \in {0, 80, 100}}

ShrinkageValues == {Lit(p, 100) : p \in {-10, 0, 30, 55, 80, 95, 100, 120}}

ProductivityValues == {Lit(p, 100) : p \in {5, 10, 25, 82, 100}}

\* traffic intensities: half-integers from -1/2 to 2 * MaxContacts
TrafficValues == {Lit(k, 2) : k \in -1..(4 * MaxContacts)}

AgentValues == -1..MaxAgents

CeilingValues == 0..MaxAgents

\* forecast rows: a real-time and a throughput channel, no and some demand
ForecastRowValues ==
    {[channel |-> c, queue |-> "general", forecast_offered |-> FromInt(v)] :
         c \in {"voice", "email"}, v \in {0, 3}}

\* forecasts: row k carries the k-th timestamp.  main builds
\* horizon_days * 24 * 60 / interval_minutes rows for every series, so a
\* forecast has at least one row.
ForecastValues ==
    UNION {{[k \in 1..n |->
                [interval_start |-> k, channel |-> f[k].channel,
                 queue |-> f[k].queue,
                 forecast_offered |-> f[k].forecast_offered]] :
            f \in [1..n -> ForecastRowValues]} : n \in 1..MaxForecastRows}

ReferenceRow(channel, cost, shrinkage, threshold, aht, realtime) ==
    [channel |-> channel, queue |-> "general",
     cost_per_hour |-> FromInt(cost), shrinkage_rate |-> Lit(shrinkage, 100),
     sla_threshold_seconds |-> FromInt(threshold),
     aht_seconds |-> FromInt(aht), is_realtime |-> FromInt(realtime)]

\* staffing references: none, one channel only, both channels, two rows
\* for the same (channel, queue), and a shrinkage near 0
StaffingRefValues ==
    { <<>>,
      <<ReferenceRow("voice", 25, 30, 20, 300, 1)>>,
      <<ReferenceRow("voice", 25, 30, 20, 300, 1),
        ReferenceRow("email", 20, 68, 3600, 600, 0)>>,
      <<ReferenceRow("voice", 25, 30, 20, 300, 1),
        ReferenceRow("voice", 30, 40, 30, 240, 1),
        ReferenceRow("email", 20, 68, 3600, 600, 0)>>,
      <<ReferenceRow("voice", 25, 2, 20, 300, 1)>> }

\* two of ALLOWED_INTERVAL_MINUTES
IntervalMinuteValues == {15, 60}

\* the offered contacts of the intervals of one training day, from
\* midnight on: a day without rows, with one row, with two rows
DayValues == {<< >>, <<2>>, <<1, 3>>}

\* the rows of one day
RowsOfDay(contacts, day, interval_minutes) ==
    [b \in 1..Len(contacts) |->
        [day |-> day, minute |-> (b - 1) * interval_minutes,
         offered_contacts |-> contacts[b]]]

\* the rows of the first n days of a window that starts on day first,
\* sorted by interval_start
RECURSIVE SeriesRows(_, _, _, _)
SeriesRows(days, first, interval_minutes, n) ==
    IF n = 0 THEN << >>
    ELSE SeriesRows(days, first, interval_minutes, n - 1)
             \o RowsOfDay(days[n], first + n - 1, interval_minutes)

\* training windows by day: empty (no row at or before the cutoff), or
\* spanning 1..MaxTrainDays calendar days, the first and the last day with
\* rows and any day between them possibly without
TrainDayValues ==
    UNION {{d \in [1..n -> DayValues] : n > 0 => (d[1] # << >> /\ d[n] # << >>)} :
           n \in 0..MaxTrainDays}

\* the window starts on a Saturday, so that its days wrap around the week
FirstDayValues == {5}

\* the fits run on hourly intervals, the default of --interval_minutes
FitIntervalValues == {60}

\* the timestamps of the first two intervals of days calendar days from
\* day first on
RECURSIVE FutureRows(_, _, _)
FutureRows(first, days, interval_minutes) ==
    IF days = 0 THEN << >>
    ELSE FutureRows(first, days - 1, interval_minutes)
             \o << [day |-> first + days - 1, minute |-> 0],
                   [day |-> first + days - 1, minute |-> interval_minutes] >>

\* the last day of the training window (0 for a window without rows)
LastTrainDay(train) == IF Len(train) = 0 THEN 0 ELSE train[Len(train)].day

\* days from the last training day to the first projected day: 1 for the
\* holdout rows (the day after the cutoff), 15 for the rows after a holdout
\* of 14 days
GapValues == {1, 15}

(* ------------------------------- state -------------------------------- *)
\* op, args, res: the function last called, its arguments and
\* what it returned or raised; frames: the data frames after the call
VARIABLES op, args, res, frames

vars == <<op, args, res, frames>>

Init ==
    /\ op = "none"
    /\ args = <<>>
    /\ res = Ret(Zero)
    /\ frames = NoFrames

CallProbWait ==
    /\ op = "none"
    /\ \E a \in TrafficValues, n \in AgentValues :
        /\ op' = "erlang_c_prob_wait"
        /\ args' = [traffic_erlangs |-> a, agents |-> n]
        /\ res' = erlang_c_prob_wait(a, n)
        /\ frames' = NoFrames

CallAsaSeconds ==
    /\ op = "none"
    /\ \E a \in TrafficValues, n \in AgentValues, aht \in AhtValues :
        /\ op' = "erlang_c_asa_seconds"
        /\ args' = [traffic_erlangs |-> a, agents |-> n, aht_seconds |-> aht]
        /\ res' = erlang_c_asa_seconds(a, n, aht)
        /\ frames' = NoFrames

CallServiceLevel ==
    /\ op = "none"
    /\ \E a \in TrafficValues, n \in AgentValues, aht \in AhtValues,
          thr \in ThresholdValues :
        /\ op' = "erlang_c_service_level"
        /\ args' = [traffic_erlangs |-> a, agents |-> n, aht_seconds |-> aht,
                    threshold_seconds |-> thr]
        /\ res' = erlang_c_service_level(a, n, aht, thr)
        /\ frames' = NoFrames

CallErlangSummary ==
    /\ op = "none"
    /\ \E c \in ContactValues, i \in IntervalValues, aht \in AhtValues,
          n \in AgentValues, thr \in ThresholdValues :
        /\ op' = "erlang_c_summary"
        /\ args' = [contacts |-> c, interval_seconds |-> i,
                    aht_seconds |-> aht, agents |-> n,
                    sla_threshold_seconds |-> thr]
        /\ res' = erlang_c_summary(c, i, aht, n, thr)
        /\ frames' = NoFrames

CallRequiredAgentsForSla ==
    /\ op = "none"
    /\ \E c \in ContactValues, i \in IntervalValues, aht \in AhtValues,
          thr \in ThresholdValues, tgt \in TargetValues, mx \in CeilingValues :
        /\ op' = "required_agents_for_sla"
        /\ args' = [contacts |-> c, interval_seconds |-> i,
                    aht_seconds |-> aht, sla_threshold_seconds |-> thr,
                    sla_target |-> tgt, max_agents |-> mx]
        /\ res' = required_agents_for_sla(c, i, aht, thr, tgt, mx)
        /\ frames' = NoFrames

CallApplyShrinkage ==
    /\ op = "none"
    /\ \E s \in 0..(2 * MaxAgents), r \in ShrinkageValues :
        /\ op' = "apply_shrinkage"
        /\ args' = [scheduled_agents |-> FromInt(s), shrinkage_rate |-> r]
        /\ res' = Ret(apply_shrinkage(FromInt(s), r))
        /\ frames' = NoFrames

\* required_agents_realtime; the solver's search does not depend on the
\* shrinkage, so it is evaluated once for all shrinkage rates
CallRequiredAgentsRealtime ==
    /\ op = "none"
    /\ \E c \in ContactValues, i \in IntervalValues, aht \in AhtValues,
          thr \in ThresholdValues, tgt \in TargetValues :
        \E req \in {required_agents_for_sla(c, i, aht, thr, tgt,
                                            DefaultMaxAgents)},
           r \in ShrinkageValues :
            /\ op' = "required_agents_realtime"
            /\ args' = [contacts |-> c, interval_seconds |-> i,
                        aht_seconds |-> aht, sla_threshold_seconds |-> thr,
                        sla_target |-> tgt, shrinkage_rate |-> r]
            /\ res' = RealtimeResult(req, r)
            /\ frames' = NoFrames

CallRequiredAgentsThroughput ==
    /\ op = "none"
    /\ \E c \in ContactValues, i \in IntervalValues, aht \in AhtValues,
          r \in ShrinkageValues, p \in ProductivityValues :
        /\ op' = "required_agents_throughput"
        /\ args' = [contacts |-> c, interval_seconds |-> i,
                    aht_seconds |-> aht, shrinkage_rate |-> r,
                    productivity |-> p]
        /\ res' = required_agents_throughput(c, i, aht, r, p)
        /\ frames' = NoFrames

\* one pass of main's loop "for sc in DEFAULT_SCENARIOS"
CallSimulateScenario ==
    /\ op = "none"
    /\ \E f \in ForecastValues, ref \in StaffingRefValues,
          m \in IntervalMinuteValues, i \in 1..Len(DEFAULT_SCENARIOS) :
        /\ op' = "_simulate_scenario"
        /\ args' = [forecast_df |-> f, staffing_ref |-> ref,
                    interval_minutes |-> m,
                    scenario |-> DEFAULT_SCENARIOS[i]]
        /\ res' = _simulate_scenario(f, ref, m, DEFAULT_SCENARIOS[i])
        /\ frames' = FramesAfter(f, ref, DEFAULT_SCENARIOS[i],
               _simulate_scenario(f, ref, m, DEFAULT_SCENARIOS[i]))

CallFitProfileAndTrend ==
    /\ op = "none"
    /\ \E d \in TrainDayValues, first \in FirstDayValues,
          m \in FitIntervalValues :
        \E series_df \in {SeriesRows(d, first, m, Len(d))} :
            /\ op' = "_fit_profile_and_trend"
            /\ args' = [series_df |-> series_df, interval_minutes |-> m]
            /\ res' = _fit_profile_and_trend(series_df, m)
            /\ frames' = [NoFrames EXCEPT !.train = series_df]

\* main projects the fitted model of a series, on the holdout timestamps
\* and on the future timestamps
CallForecastSeries ==
    /\ op = "_fit_profile_and_trend"
    /\ res.exc = "none"
    /\ \E gap \in GapValues :
        \E future_index \in {FutureRows(LastTrainDay(frames.train) + gap, HorizonDays, args.interval_minutes)} :
            /\ op' = "_forecast_series"
            /\ args' = [model |-> res.val, future_index |-> future_index,
                        interval_minutes |-> args.interval_minutes]
            /\ res' = _forecast_series(res.val, future_index, args.interval_minutes)
            /\ frames' = frames

Next ==
    \/ CallSimulateScenario
    \/ CallRequiredAgentsThroughput
    \/ CallProbWait
    \/ CallAsaSeconds
    \/ CallServiceLevel
    \/ CallApplyShrinkage
    \/ CallErlangSummary
    \/ CallRequiredAgentsForSla
    \/ CallRequiredAgentsRealtime

Spec == Init /\ [][Next]_vars

\* the forecaster: the fit of one series on its training window, then a
\* projection of the fitted model
NextFit ==
    \/ CallFitProfileAndTrend
    \/ CallForecastSeries

SpecFit == Init /\ [][NextFit]_vars

(* ----------------------------- properties ----------------------------- *)
\* an integer as an exact (unrounded) value, for comparison with a float
IntVal(k) == <<k, 0>>

\* n is the ceiling of the float q
IsCeilOf(n, q) == FlLe(q, IntVal(n)) /\ FlLt(IntVal(n - 1), q)

\* the service level of n agents is returned and meets the target
Meets(traffic, n, aht, thr, tgt) ==
    \E sl \in {erlang_c_service_level(traffic, n, aht, thr)} :
        sl.exc = "none" /\ FlLe(tgt, sl.val)

\* the traffic intensity of the call recorded in args
ArgTraffic == Traffic(args.contacts, args.interval_seconds, args.aht_seconds)

Saturated == FlLe(FromInt(args.agents), args.traffic_erlangs)

\* C1: whenever a >= n (n <= 0 included), erlang_c_prob_wait returns 1,
\* erlang_c_service_level returns 0 and erlang_c_asa_seconds returns
\* +infinity, as values: none of the three raises.
C1_SaturatedValues ==
    /\ (op = "erlang_c_prob_wait" /\ Saturated) => res = Ret(One)
    /\ (op = "erlang_c_service_level" /\ Saturated) => res = Ret(Zero)
    /\ (op = "erlang_c_asa_seconds" /\ Saturated) => res = Ret(PosInf)

\* a saturated call of erlang_c_asa_seconds with a valid handle time and
\* a = n >= 1 has returned +infinity
C1_Witness ==
    /\ op = "erlang_c_asa_seconds"
    /\ args.agents >= 1
    /\ args.traffic_erlangs = FromInt(args.agents)
    /\ FlLt(Zero, args.aht_seconds)
    /\ res = Ret(PosInf)

\* C2: a count returned by required_agents_for_sla meets the target or is
\* the ceiling max_agents.
C2_MeetsTargetOrCeiling ==
    (op = "required_agents_for_sla" /\ res.exc = "none") =>
        \/ res.val = args.max_agents
        \/ Meets(ArgTraffic, res.val, args.aht_seconds,
                 args.sla_threshold_seconds, args.sla_target)

\* the solver has rejected a candidate and returned a count below the
\* ceiling
C2_Witness ==
    /\ op = "required_agents_for_sla"
    /\ res.exc = "none"
    /\ res.evals >= 2
    /\ res.val < args.max_agents
    /\ FlLt(Zero, args.sla_target)

C4_SearchReturnsWithinCeiling ==
    op = "required_agents_for_sla" =>
        /\ res.exc = "none"
        /\ res.evals <= MaxI(0, args.max_agents
                                - MaxI(1, FlCeil(ArgTraffic)) + 1)
        /\ res.val <= args.max_agents
        /\ (\A n \in MaxI(1, FlCeil(ArgTraffic))..args.max_agents :
                ~Meets(ArgTraffic, n, args.aht_seconds,
                       args.sla_threshold_seconds, args.sla_target))
           => res.val = args.max_agents

Idle == args.traffic_erlangs = Zero

ValidTimes(a) ==
    /\ FlLt(Zero, a.aht_seconds)
    /\ ("threshold_seconds" \in DOMAIN a => FlLt(Zero, a.threshold_seconds))

\* C5 as stated: with traffic 0, aht > 0 and threshold > 0,
\* erlang_c_service_level returns 1 and erlang_c_asa_seconds returns 0 for
\* every agent count.
C5_IdleEveryCount ==
    /\ (op = "erlang_c_service_level" /\ Idle /\ ValidTimes(args))
           => res = Ret(One)
    /\ (op = "erlang_c_asa_seconds" /\ Idle /\ ValidTimes(args))
           => res = Ret(Zero)

\* C5: with traffic 0, aht > 0 and threshold > 0, erlang_c_service_level
\* returns 1 and erlang_c_asa_seconds returns 0 for every agent count
\* n >= 1.
C5_IdlePositiveCount ==
    /\ (op = "erlang_c_service_level" /\ Idle /\ ValidTimes(args)
            /\ args.agents >= 1) => res = Ret(One)
    /\ (op = "erlang_c_asa_seconds" /\ Idle /\ ValidTimes(args)
            /\ args.agents >= 1) => res = Ret(Zero)

\* erlang_c_service_level has returned 1 for an idle queue with two agents
C5_Witness ==
    /\ op = "erlang_c_service_level"
    /\ Idle /\ ValidTimes(args)
    /\ args.agents = 2
    /\ res = Ret(One)

IsStaffingCall ==
    /\ op \in {"required_agents_realtime", "required_agents_throughput"}
    /\ res.exc = "none"

\* shrinkage s clamped to [0, 0.95]
Clamped(s) == IF FlLt(s, Zero) THEN Zero
              ELSE IF FlLt(Lit(95, 100), s) THEN Lit(95, 100)
              ELSE s

\* C6: in required_agents_realtime and required_agents_throughput,
\* scheduled_agents is the ceiling of A / (1 - r) for the available count A
\* and r the shrinkage_rate clamped to [0, 0.95]; it is at least A and at
\* most 20 * A, for every shrinkage_rate.
C6_ScheduledFromClampedShrinkage ==
    IsStaffingCall =>
        /\ IsCeilOf(res.val.scheduled_agents,
                    FlDiv(FromInt(res.val.available_agents),
                          FlSub(One, Clamped(args.shrinkage_rate))))
        /\ res.val.scheduled_agents >= res.val.available_agents
        /\ res.val.scheduled_agents <= 20 * res.val.available_agents

\* required_agents_realtime has been called with a shrinkage_rate of 1 or
\* more and has scheduled more agents than are required available
C6_Witness ==
    /\ op = "required_agents_realtime"
    /\ res.exc = "none"
    /\ FlLe(One, args.shrinkage_rate)
    /\ res.val.scheduled_agents > res.val.available_agents

\* floor(S * (1 - s)), as generate_sample_data derives available from
\* scheduled
AvailableFromScheduled(S, s) == FlFloor(FlMul(FromInt(S), FlSub(One, s)))

\* C7: for shrinkage s in [0, 0.95] the scheduled count S of a staffing
\* result with available count A >= 0 has floor(S * (1 - s)) >= A, and S is
\* the least such integer: floor((S - 1) * (1 - s)) < A when S >= 1.
\* (Stated for the counts that the modelled float holds exactly, as
\* binary64 holds every count the solver can return.)
C7_RoundTrip ==
    (/\ IsStaffingCall
     /\ res.val.scheduled_agents <= Pow2(MantBits)
     /\ FlLe(Zero, args.shrinkage_rate)
     /\ FlLe(args.shrinkage_rate, Lit(95, 100))
     /\ res.val.available_agents >= 0) =>
        /\ AvailableFromScheduled(res.val.scheduled_agents,
                                  args.shrinkage_rate)
               >= res.val.available_agents
        /\ res.val.scheduled_agents >= 1 =>
               AvailableFromScheduled(res.val.scheduled_agents - 1,
                                      args.shrinkage_rate)
                   < res.val.available_agents

\* C8 as stated: available_agents of required_agents_throughput is
\* ceil(contacts * aht_seconds / interval_seconds / productivity) (checked
\* where interval_seconds is not 0).
C8_ThroughputClosedForm ==
    (op = "required_agents_throughput" /\ args.interval_seconds # 0) =>
        IsCeilOf(res.val.available_agents,
                 FlDiv(FlDiv(FlMul(args.contacts, args.aht_seconds),
                             FromInt(args.interval_seconds)),
                       args.productivity))

\* C8: available_agents of required_agents_throughput is
\* ceil(contacts * aht_seconds / max(1, interval_seconds)
\*      / max(0.1, productivity)), so 0 for zero contacts.
C8_ThroughputClosedFormClamped ==
    op = "required_agents_throughput" =>
        /\ res.exc = "none"
        /\ IsCeilOf(res.val.available_agents,
                    FlDiv(FlDiv(FlMul(args.contacts, args.aht_seconds),
                                FromInt(IF args.interval_seconds < 1 THEN 1
                                        ELSE args.interval_seconds)),
                          IF FlLt(args.productivity, Lit(1, 10))
                          THEN Lit(1, 10) ELSE args.productivity))
        /\ args.contacts = Zero => res.val.available_agents = 0

\* required_agents_throughput has been called with a productivity below
\* 0.1 and positive work
C8_Witness ==
    /\ op = "required_agents_throughput"
    /\ FlLt(args.productivity, Lit(1, 10))
    /\ FlLt(Zero, args.contacts)
    /\ FlLt(Zero, args.aht_seconds)
    /\ res.val.available_agents > 0

\* n is the floor of the float q
IsFloorOf(n, q) == FlLe(IntVal(n), q) /\ FlLt(q, IntVal(n + 1))

\* the staffing result of calling the solver of the row's discipline on
\* the row's forecast volume and its reference shrinkage, AHT and threshold
DirectStaffing(row, staffing_ref, interval_minutes) ==
    Only({ IF ref.is_realtime # Zero
           THEN required_agents_realtime(
                    PyMax(Zero, row.forecast_offered), interval_minutes * 60,
                    PyMax(One, ref.aht_seconds),
                    PyMax(One, ref.sla_threshold_seconds), Lit(80, 100),
                    FillNa(ref.shrinkage_rate, Lit(30, 100)))
           ELSE required_agents_throughput(
                    PyMax(Zero, row.forecast_offered), interval_minutes * 60,
                    PyMax(One, ref.aht_seconds),
                    FillNa(ref.shrinkage_rate, Lit(30, 100)), One) :
           ref \in {ReferenceOf(staffing_ref, row)} })

\* C9: _simulate_scenario with the base scenario yields for every forecast
\* row an outcome row whose required_agents_scheduled is the
\* scheduled_agents of the solver called directly on that row.
C9_BaseReproducesSolver ==
    (op = "_simulate_scenario" /\ args.scenario.scenario_id = "base") =>
        /\ res.exc = "none"
        /\ Len(res.val) = Len(args.forecast_df)
        /\ \A k \in 1..Len(args.forecast_df) :
               \E d \in {DirectStaffing(args.forecast_df[k],
                                        args.staffing_ref,
                                        args.interval_minutes)} :
                   /\ d.exc = "none"
                   /\ res.val[k].required_agents_scheduled
                          = d.val.scheduled_agents

\* C10: _simulate_scenario yields for every forecast row an outcome row
\* with planned_agents_scheduled = ceil(required_agents_scheduled *
\* (1 + staffing_buffer)), planned_agents_available =
\* floor(planned_agents_scheduled * (1 - scenario_shrinkage)) and
\* under_over_staffed = planned_agents_scheduled -
\* required_agents_scheduled, which is >= 0 when staffing_buffer >= 0.
C10_PlannedStaffing ==
    op = "_simulate_scenario" =>
        /\ res.exc = "none"
        /\ Len(res.val) = Len(args.forecast_df)
        /\ \A k \in 1..Len(args.forecast_df) :
               /\ IsCeilOf(res.val[k].planned_agents_scheduled,
                           FlMul(FromInt(res.val[k].required_agents_scheduled),
                                 FlAdd(One, args.scenario.staffing_buffer)))
               /\ IsFloorOf(res.val[k].planned_agents_available,
                            FlMul(FromInt(res.val[k].planned_agents_scheduled),
                                  FlSub(One, res.val[k].scenario_shrinkage)))
               /\ res.val[k].under_over_staffed
                      = res.val[k].planned_agents_scheduled
                            - res.val[k].required_agents_scheduled
               /\ FlLe(Zero, args.scenario.staffing_buffer)
                      => res.val[k].under_over_staffed >= 0

\* the demand, AHT and threshold the simulator uses for an outcome row o
\* whose reference row is ref
RowDemand(o) == PyMax(Zero, o.forecast_offered)

RowAht(ref) == PyMax(One, ref.aht_seconds)

RowThreshold(ref) == PyMax(One, ref.sla_threshold_seconds)

\* the achieved service level and ASA of outcome row o follow from its
\* planned_agents_available
AchievedFromPlanned(o, ref, interval_seconds) ==
    IF ref.is_realtime # Zero
    THEN \E er \in {erlang_c_summary(RowDemand(o), interval_seconds,
                                     RowAht(ref),
                                     o.planned_agents_available,
                                     RowThreshold(ref))} :
             /\ er.exc = "none"
             /\ o.achieved_service_level = er.val.service_level
             /\ o.achieved_asa_seconds = er.val.asa_seconds
    ELSE /\ o.achieved_asa_seconds = NaN
         /\ o.achieved_service_level =
                IF FlLe(RowDemand(o), Zero) THEN One
                ELSE FlMin(One,
                         FlDiv(FlDiv(FlMul(FromInt(o.planned_agents_available),
                                           FromInt(interval_seconds)),
                                     RowAht(ref)),
                               RowDemand(o)))

\* C11: every forecast row yields an outcome row whose achieved service
\* level and ASA are computed from planned_agents_available: by
\* erlang_c_summary for real-time rows, and as min(1, planned_available *
\* interval_seconds / aht / demand) (1 for no demand) with ASA NaN for
\* throughput rows.
C11_AchievedFromPlannedAvailable ==
    op = "_simulate_scenario" =>
        /\ res.exc = "none"
        /\ Len(res.val) = Len(args.forecast_df)
        /\ \A k \in 1..Len(args.forecast_df) :
               AchievedFromPlanned(res.val[k],
                   ReferenceOf(args.staffing_ref, args.forecast_df[k]),
                   args.interval_minutes * 60)

\* reference shrinkage s (0.30 when missing) plus delta, clamped to
\* [0, 0.70]
AdjustedShrinkage(s, delta) ==
    \* written without Clip and FillNa
    IF FlLt(FlAdd(IF s = NaN THEN Lit(30, 100) ELSE s, delta), Zero)
    THEN Zero
    ELSE IF FlLt(Lit(70, 100),
                 FlAdd(IF s = NaN THEN Lit(30, 100) ELSE s, delta))
    THEN Lit(70, 100)
    ELSE FlAdd(IF s = NaN THEN Lit(30, 100) ELSE s, delta)

\* C12: for every scenario and every reference shrinkage (0.30 when the
\* reference is missing), the scenario_shrinkage of every row of df is
\* clamp(reference_shrinkage + shrinkage_delta, 0, 0.70); it lies in
\* [0, 0.70], and so does the shrinkage handed to the solver.
C12_ScenarioShrinkageClamped ==
    op = "_simulate_scenario" =>
        /\ Len(frames.df) = Len(args.forecast_df)
        /\ \A k \in 1..Len(args.forecast_df) :
               /\ frames.df[k].scenario_shrinkage =
                      AdjustedShrinkage(
                          ReferenceOf(args.staffing_ref,
                                      args.forecast_df[k]).shrinkage_rate,
                          args.scenario.shrinkage_delta)
               /\ FlLe(Zero, frames.df[k].scenario_shrinkage)
               /\ FlLe(frames.df[k].scenario_shrinkage, Lit(70, 100))
               /\ FlLe(PyMax(Zero, frames.df[k].scenario_shrinkage),
                       Lit(70, 100))

\* the scenario hi_shrink has been applied to a row whose reference
\* shrinkage 0.68 exceeds 0.70 after the delta
C12_Witness ==
    /\ op = "_simulate_scenario"
    /\ args.scenario.scenario_id = "hi_shrink"
    /\ \E k \in 1..Len(args.forecast_df) :
           /\ ReferenceOf(args.staffing_ref,
                          args.forecast_df[k]).shrinkage_rate = Lit(68, 100)
           /\ frames.df[k].scenario_shrinkage = Lit(70, 100)

\* some row of staffing_ref has the (channel, queue) of the forecast row
HasReference(staffing_ref, row) ==
    \E i \in 1..Len(staffing_ref) :
        /\ staffing_ref[i].channel = row.channel
        /\ staffing_ref[i].queue = row.queue

\* C13: when a forecast row has no matching staffing reference row,
\* _simulate_scenario does not fail: it emits an outcome row for every
\* forecast row, and the rows without reference use shrinkage 0.30 (before
\* the scenario's delta) and cost 22.0 per hour (before the wage
\* multiplier).
C13_MissingReferenceFallback ==
    (/\ op = "_simulate_scenario"
     /\ \E k \in 1..Len(args.forecast_df) :
            ~HasReference(args.staffing_ref, args.forecast_df[k])) =>
        /\ res.exc = "none"
        /\ Len(res.val) = Len(args.forecast_df)
        /\ \A k \in 1..Len(args.forecast_df) :
               ~HasReference(args.staffing_ref, args.forecast_df[k]) =>
                   /\ res.val[k].scenario_shrinkage =
                          AdjustedShrinkage(Lit(30, 100),
                                            args.scenario.shrinkage_delta)
                   /\ res.val[k].planned_labor_cost =
                          FlMul(FlMul(FromInt(
                                      res.val[k].planned_agents_scheduled),
                                      FlMul(FromInt(22),
                                            args.scenario.wage_multiplier)),
                                FlDiv(FromInt(args.interval_minutes),
                                      FromInt(60)))


\* the call recorded in args carries a non-positive AHT or a non-positive
\* interval length
InvalidParameter ==
    \/ /\ "aht_seconds" \in DOMAIN args
       /\ FlLe(args.aht_seconds, Zero)
    \/ /\ "interval_seconds" \in DOMAIN args
       /\ args.interval_seconds <= 0

\* C14: a call of a Queueing Model or Staffing Solver operation with a
\* non-positive AHT or a non-positive interval length fails with an error
\* and produces no value.
C14_InvalidParameterFails ==
    (/\ op \in {"erlang_c_asa_seconds", "erlang_c_service_level",
                "erlang_c_summary", "required_agents_for_sla",
                "required_agents_realtime", "required_agents_throughput"}
     /\ InvalidParameter) =>
        res.exc # "none"

\* C15: for every stable input 0 < a < n, erlang_c_prob_wait returns a
\* probability in [0, 1] instead of raising.
C15_ProbWaitNeverOverflows ==
    (/\ op = "erlang_c_prob_wait"
     /\ FlLt(Zero, args.traffic_erlangs)
     /\ FlLt(args.traffic_erlangs, FromInt(args.agents))) =>
        /\ res.exc = "none"
        /\ FlLe(Zero, res.val)
        /\ FlLe(res.val, One)


\* C16: for a > 0, aht > 0 and threshold > 0, erlang_c_service_level returns
\* a value for n and for n + 1, and the value for n is not above the value
\* for n + 1 (the saturated counts n <= a included).
C16_ServiceLevelNonDecreasing ==
    (/\ op = "erlang_c_service_level"
     /\ FlLt(Zero, args.traffic_erlangs)
     /\ FlLt(Zero, args.aht_seconds)
     /\ FlLt(Zero, args.threshold_seconds)) =>
        \A next \in {erlang_c_service_level(args.traffic_erlangs, args.agents + 1, args.aht_seconds, args.threshold_seconds)} :
            /\ res.exc = "none"
            /\ next.exc = "none"
            /\ FlLe(res.val, next.val)


\* the daily totals of the training window of the recorded call
TrainDaily == Daily(args.series_df)

\* the float v is num / den (den > 0) up to an absolute error of 1/32
NearRatio(v, num, den) ==
    IF v[2] >= 0 THEN Abs(v[1] * Pow2(v[2]) * den - num) <= den \div 32
    ELSE IF v[2] < -20 THEN Abs(num) * 32 <= den
    ELSE Abs(v[1] * den - num * Pow2(-v[2])) <= (den * Pow2(-v[2])) \div 32

\* sum of t^p * y[t+1]^q over the zero-based day indices t
RECURSIVE Moment(_, _, _, _)
Moment(y, p, q, n) ==
    IF n = 0 THEN 0
    ELSE Moment(y, p, q, n - 1) + IntPow(n - 1, p) * IntPow(y[n], q)

\* numerator and denominator of the least-squares slope of y against the
\* zero-based index: (n Sxy - Sx Sy) / (n Sxx - Sx^2)
OlsNum(y) == Len(y) * Moment(y, 1, 1, Len(y)) - Moment(y, 1, 0, Len(y)) * Moment(y, 0, 1, Len(y))

OlsDen(y) == Len(y) * Moment(y, 2, 0, Len(y)) - Moment(y, 1, 0, Len(y)) * Moment(y, 1, 0, Len(y))

\* C17: when the training window spans fewer than 7 days (daily totals, one
\* per calendar day from the first to the last row), _fit_profile_and_trend
\* returns trend_slope 0 and trend_intercept the mean of the daily totals
\* (0 for a window without rows); when it spans 7 or more days, trend_slope
\* is the least-squares slope of the daily totals against the zero-based
\* day index.
C17_TrendFallbackAndSlope ==
    op = "_fit_profile_and_trend" =>
        \A daily \in {TrainDaily} :
            /\ res.exc = "none"
            /\ Len(daily) < 7 =>
                   /\ res.val.trend_slope = Zero
                   /\ res.val.trend_intercept =
                          IF Len(daily) = 0 THEN Zero
                          ELSE Lit(Moment(daily, 0, 1, Len(daily)), Len(daily))
            /\ Len(daily) >= 7 =>
                   NearRatio(res.val.trend_slope, OlsNum(daily), OlsDen(daily))

\* a window of exactly 7 days with a rising total has been fitted, and so
\* has a window of 6 days
C17_Witness ==
    /\ op = "_fit_profile_and_trend"
    /\ Len(TrainDaily) = 7
    /\ OlsNum(TrainDaily) > 0
    /\ FlLt(Zero, res.val.trend_slope)


OutcomeKey(r) == <<r.scenario_id, r.interval_start, r.channel, r.queue>>

\* C19: _simulate_scenario returns exactly one outcome row for every forecast
\* row, carrying the scenario's id and the forecast row's timestamp, channel
\* and queue, with no key (scenario_id, interval_start, channel, queue)
\* twice, whether the staffing reference holds one row, several rows or no
\* row for the (channel, queue).
C19_OneOutcomePerForecastRow ==
    op = "_simulate_scenario" =>
        /\ res.exc = "none"
        /\ Len(res.val) = Len(args.forecast_df)
        /\ \A k \in 1..Len(args.forecast_df) :
               OutcomeKey(res.val[k]) = <<args.scenario.scenario_id, args.forecast_df[k].interval_start, args.forecast_df[k].channel, args.forecast_df[k].queue>>
        /\ \A j, k \in 1..Len(args.forecast_df) :
               j # k => OutcomeKey(res.val[j]) # OutcomeKey(res.val[k])

\* every row of the forecast has a staffing reference row whose metadata are
\* valid: AHT and threshold positive, shrinkage in [0, 1), is_realtime 0 or 1
ValidMetadata ==
    \A k \in 1..Len(args.forecast_df) :
        /\ HasReference(args.staffing_ref, args.forecast_df[k])
        /\ \A r \in {ReferenceOf(args.staffing_ref, args.forecast_df[k])} :
               /\ FlLt(Zero, r.aht_seconds)
               /\ FlLt(Zero, r.sla_threshold_seconds)
               /\ FlLe(Zero, r.shrinkage_rate)
               /\ FlLt(r.shrinkage_rate, One)
               /\ r.is_realtime \in {Zero, One}

\* C20: for a forecast whose rows all have valid metadata, no call made by
\* _simulate_scenario to required_agents_realtime, required_agents_throughput
\* or erlang_c_summary fails to bind its arguments: the scenario run does not
\* end with a TypeError.
C20_CallsBindTheirArguments ==
    (op = "_simulate_scenario" /\ ValidMetadata) => res.exc # "TypeError"


\* C21: a projected row whose day lies d days after the first training day
\* gets the forecast built from the daily total
\* max(0, trend_intercept + trend_slope * d): the day index of the fit
\* continues past the training window.
C21_ProjectionTracksTrend ==
    (op = "_forecast_series" /\ Len(frames.train) > 0) =>
        /\ res.exc = "none"
        /\ \A k \in 1..Len(args.future_index) :
               res.val[k] = ForecastValue(args.model, args.future_index[k], args.interval_minutes, args.future_index[k].day - frames.train[1].day)

=============================================================================
